---------------------------- MODULE Spec2Model ----------------------------
(***************************************************************************)
(* Model of gen.py (pkcs11-json): the translation of a libclang            *)
(* declaration tree of pkcs11.h into the JSON description of the PKCS #11  *)
(* functions and structs.                                                  *)
(*                                                                         *)
(* The run is one linear pipeline (AST.__init__ followed by the            *)
(* serialisation in __main__):                                             *)
(*   typedefs -> declarations -> origin -> classify -> serialize -> done   *)
(* The input (the translation unit's top-level cursors) is chosen in the   *)
(* initial state.  Python's hash() and clang's cursor hash are modelled    *)
(* as injective: a key of the alias dict is either <<"str", spelling>> or  *)
(* <<"cursor", id>>.  Types are as libclang reports them for a C header:   *)
(* a use of a typedef name has kind TYPEDEF, "struct tag" has kind         *)
(* ELABORATED with a RECORD as canonical type.  A C header has no          *)
(* namespaces, so the recursion of the two passes into NAMESPACE cursors   *)
(* never runs and is left out.                                             *)
(***************************************************************************)
EXTENDS Naturals, Sequences, FiniteSets, TLC

VARIABLES tree, pc, aliases, stdout, types, structs, functions, origin,
          out_functions, outfile

vars == <<tree, pc, aliases, stdout, types, structs, functions, origin,
          out_functions, outfile>>

-----------------------------------------------------------------------------
(* Python string helpers *)

startswith(s, prefix) ==
    /\ Len(s) >= Len(prefix)
    /\ SubSeq(s, 1, Len(prefix)) = prefix

\* Python's "sub in s"
contains(s, sub) ==
    \E i \in 1..(Len(s) + 1) :
        /\ i + Len(sub) - 1 <= Len(s)
        /\ SubSeq(s, i, i + Len(sub) - 1) = sub

\* str(hash(str(spelling))): the dict key of a type spelling
hash_of_spelling(s) == <<"str", s>>

\* str(cursor.hash): the dict key of a declaration
hash_of_cursor(decl) == <<"cursor", decl.hash>>

\* dict.get(key, default) on a dict modelled as a function
dict_get(d, key, default) == IF key \in DOMAIN d THEN d[key] ELSE default

\* d[key] = value
dict_set(d, key, value) == (key :> value) @@ d

EmptyDict == <<>>

-----------------------------------------------------------------------------
(* clang.cindex.Type values.  Every type has a kind and a spelling;        *)
(* POINTER has a pointee, TYPEDEF the declaration that introduces it and   *)
(* its underlying type, ELABORATED and RECORD the struct declaration they  *)
(* name, CONSTANTARRAY an element type and a size.                         *)

NoDecl == [kind |-> "NO_DECL_FOUND", spelling |-> "", hash |-> ""]

Builtin(k, s) == [kind |-> k, spelling |-> s]

PointerTo(t) == [kind |-> "POINTER", spelling |-> t.spelling \o " *",
                 pointee |-> t]

TypedefOf(name, t) ==
    [kind |-> "TYPEDEF", spelling |-> name, underlying |-> t,
     decl |-> [kind |-> "TYPEDEF_DECL", spelling |-> name, hash |-> name]]

\* "struct tag" written in a declaration
StructRef(tag) ==
    [kind |-> "ELABORATED", spelling |-> "struct " \o tag,
     decl |-> [kind |-> "STRUCT_DECL", spelling |-> tag, hash |-> tag]]

\* "enum tag" written in a declaration
EnumRef(tag) ==
    [kind |-> "ELABORATED", spelling |-> "enum " \o tag,
     decl |-> [kind |-> "ENUM_DECL", spelling |-> tag, hash |-> tag]]

ArrayOf(t, n) ==
    [kind |-> "CONSTANTARRAY", spelling |-> t.spelling \o "[" \o ToString(n) \o "]",
     elem |-> t, size |-> n]

FunctionProto(s) == [kind |-> "FUNCTIONPROTO", spelling |-> s]

\* Type.get_declaration()
get_declaration(t) ==
    IF t.kind \in {"TYPEDEF", "ELABORATED", "RECORD", "ENUM"} THEN t.decl ELSE NoDecl

\* Type.get_canonical(): typedefs and elaboration stripped
RECURSIVE get_canonical(_)
get_canonical(t) ==
    IF t.kind = "TYPEDEF" THEN get_canonical(t.underlying)
    ELSE IF t.kind = "ELABORATED"
         THEN [kind |-> IF t.decl.kind = "STRUCT_DECL" THEN "RECORD" ELSE "ENUM",
               spelling |-> t.spelling, decl |-> t.decl]
    ELSE t


-----------------------------------------------------------------------------
(* Field *)

\* Field._get_type_spelling
Field_get_type_spelling(typ, al) ==
    IF typ.kind = "CONSTANTARRAY" THEN
        LET elem_type == typ.elem
            elem_str ==
                IF elem_type.kind = "TYPEDEF" THEN get_declaration(elem_type).spelling
                ELSE IF elem_type.kind \in {"UCHAR", "CHAR_U"} THEN "unsigned char"
                ELSE elem_type.spelling
        IN  elem_str \o "[" \o ToString(typ.size) \o "]"
    ELSE IF typ.kind = "TYPEDEF" THEN get_declaration(typ).spelling
    ELSE IF typ.kind = "POINTER" THEN
        LET pointee == typ.pointee
        IN  IF pointee.kind = "TYPEDEF" THEN get_declaration(pointee).spelling \o " *"
            ELSE IF pointee.kind \in {"UCHAR", "CHAR_U"} THEN "unsigned char *"
            ELSE IF pointee.kind = "VOID" THEN "void *"
            ELSE pointee.spelling \o " *"
    ELSE IF typ.kind \in {"RECORD", "ELABORATED"} THEN
        LET decl == get_declaration(typ)
            canonical == get_canonical(typ)
        IN  IF hash_of_cursor(decl) \in DOMAIN al THEN al[hash_of_cursor(decl)]
            ELSE IF /\ canonical.kind = "RECORD"
                    /\ hash_of_cursor(get_declaration(canonical)) \in DOMAIN al
                 THEN al[hash_of_cursor(get_declaration(canonical))]
            ELSE typ.spelling
    ELSE IF typ.kind \in {"ULONG", "LONG"} THEN "long unsigned int"
    ELSE IF typ.kind \in {"UCHAR", "CHAR_U"} THEN "unsigned char"
    ELSE typ.spelling

\* Field._resolve_type
Field_resolve_type(typ, al) ==
    LET spelling == Field_get_type_spelling(typ, al)
    IN  dict_get(al, hash_of_spelling(spelling), spelling)

\* Field.to_json
Field_to_json(field, al) ==
    [name |-> field.name, type |-> Field_resolve_type(field.field_type, al)]

-----------------------------------------------------------------------------
(* Struct *)

\* Struct.__init__ followed by the member loop of _collect_declarations
Struct_new(cursor) ==
    [name |-> cursor.spelling,
     type_id |-> hash_of_cursor(cursor),
     members |-> LET fields == SelectSeq(cursor.children,
                                        LAMBDA member : member.kind = "FIELD_DECL")
                 IN  [i \in 1..Len(fields) |->
                        [name |-> fields[i].spelling, field_type |-> fields[i].type]]]

\* Struct.to_json; the Encoder renders each member with Field.to_json
Struct_to_json(struct, al) ==
    [name |-> IF struct.type_id \in DOMAIN al THEN al[struct.type_id] ELSE struct.name,
     members |-> [i \in 1..Len(struct.members) |-> Field_to_json(struct.members[i], al)]]

-----------------------------------------------------------------------------
(* Function *)

\* Function.__init__
Function_new(cursor) ==
    [name |-> cursor.spelling,
     result_type |-> cursor.result_type,
     arguments |-> [i \in 1..Len(cursor.arguments) |->
                      [name |-> cursor.arguments[i].spelling,
                       type |-> cursor.arguments[i].type]],
     version |-> 2,
     file |-> cursor.file]

\* Function._get_type_spelling
Function_get_type_spelling(typ) ==
    IF typ.kind = "TYPEDEF" THEN get_declaration(typ).spelling
    ELSE IF typ.kind = "POINTER" THEN
        LET pointee == typ.pointee
        IN  IF pointee.kind = "TYPEDEF" THEN get_declaration(pointee).spelling \o " *"
            ELSE IF pointee.kind \in {"ULONG", "LONG"} THEN "long unsigned int *"
            ELSE IF pointee.kind \in {"UCHAR", "CHAR_U"} THEN "unsigned char *"
            ELSE IF pointee.kind = "VOID" THEN
                IF typ.kind = "TYPEDEF" THEN get_declaration(typ).spelling
                ELSE "void *"
            ELSE pointee.spelling \o " *"
    ELSE IF typ.kind \in {"ULONG", "LONG"} THEN "long unsigned int"
    ELSE IF typ.kind \in {"UCHAR", "CHAR_U"} THEN "unsigned char"
    ELSE typ.spelling

\* Function._resolve_type
Function_resolve_type(typ, al) ==
    LET spelling == Function_get_type_spelling(typ)
    IN  dict_get(al, hash_of_spelling(spelling), spelling)

\* The tag Function._resolve_ffi_type gives a type that is no typedef
ffi_of_kind(typ) ==
    IF typ.kind = "POINTER" THEN "pointer"
    ELSE LET t == IF typ.kind = "ELABORATED" THEN get_canonical(typ) ELSE typ
         IN  IF t.kind \in {"ULONG", "LONG"} THEN "ulong"
             ELSE IF t.kind \in {"UCHAR", "CHAR_U"} THEN "uchar"
             ELSE "pointer"

\* The type Function._resolve_ffi_type classifies in place of a typedef
ffi_underlying(typ) == get_canonical(typ)

\* Function._resolve_ffi_type looking through one typedef only
Function_resolve_ffi_type_one_level(typ) ==
    IF typ.kind = "TYPEDEF" THEN ffi_of_kind(typ.underlying)
    ELSE ffi_of_kind(typ)

\* Function._resolve_ffi_type
RECURSIVE Function_resolve_ffi_type(_)
Function_resolve_ffi_type(typ) ==
    IF typ.kind = "TYPEDEF" THEN Function_resolve_ffi_type(ffi_underlying(typ))
    ELSE ffi_of_kind(typ)

\* Function.to_json
Function_to_json(function, al) ==
    [name |-> function.name,
     version |-> function.version,
     returns |-> Function_resolve_type(function.result_type, al),
     arguments |-> [i \in 1..Len(function.arguments) |->
                      [type |-> Function_resolve_type(function.arguments[i].type, al),
                       name |-> function.arguments[i].name,
                       ffi_type |-> Function_resolve_ffi_type(function.arguments[i].type)]]]

-----------------------------------------------------------------------------
(* AST *)

\* The directory the program runs in (os.getcwd())
Cwd == "/work"

\* os.path.relpath(file_path, Cwd) for a file_path that starts with Cwd
relpath(file_path) ==
    IF file_path = Cwd THEN "."
    ELSE IF SubSeq(file_path, Len(Cwd) + 1, Len(Cwd) + 1) = "/"
         THEN SubSeq(file_path, Len(Cwd) + 2, Len(file_path))
    ELSE "../" \o SubSeq(file_path, 2, Len(file_path))

\* AST._is_main_file; a cursor without file has file = ""
is_main_file(file) == file # "" /\ contains(file, "pkcs11.h")

\* "child.location.file and not self._is_main_file(child.location.file)"
skipped(child) == child.file # "" /\ ~is_main_file(child.file)

\* One iteration of the loop of AST._collect_typedefs; st = [aliases, stdout]
typedef_step(st, child) ==
    IF skipped(child) THEN st
    ELSE IF child.kind = "TYPEDEF_DECL" THEN
        LET underlying == child.underlying
        IN  IF underlying.kind = "POINTER" THEN
                [st EXCEPT !.aliases =
                    dict_set(@, hash_of_spelling(underlying.pointee.spelling \o " *"),
                             child.spelling)]
            ELSE IF underlying.kind \in {"RECORD", "ELABORATED"} THEN
                LET decl == get_declaration(underlying)
                IN  IF decl.kind = "NO_DECL_FOUND" THEN st
                    ELSE IF ~startswith(decl.spelling, "CK_")
                         THEN [st EXCEPT !.aliases =
                                  dict_set(@, hash_of_cursor(decl), child.spelling)]
                    ELSE [st EXCEPT !.stdout = Append(@, decl.spelling)]
            ELSE st
    ELSE st

\* AST._collect_typedefs over the children of the translation unit
RECURSIVE collect_typedefs(_, _)
collect_typedefs(st, children) ==
    IF children = <<>> THEN st
    ELSE collect_typedefs(typedef_step(st, Head(children)), Tail(children))

\* struct_retained without the test of the prefix
struct_retained_any(name) == TRUE

\* "if not name.startswith('CK_'): continue"
struct_retained(name) == startswith(name, "CK_")

\* "if child.spelling.startswith('C_')"
function_retained(name) == startswith(name, "C_")

\* struct_step that puts the struct at the head of self.structs
struct_step_prepend(st, child) ==
    LET type_id == hash_of_cursor(child)
        name == IF type_id \in DOMAIN st.aliases THEN st.aliases[type_id]
                ELSE child.spelling
    IN  IF ~child.is_definition THEN st
        ELSE IF ~struct_retained(name) THEN st
        ELSE [st EXCEPT !.structs = <<Struct_new(child)>> \o @,
                        !.types = dict_set(@, type_id, Struct_new(child))]

\* The STRUCT_DECL branch of AST._collect_declarations; st = [structs, types, functions, aliases]
struct_step(st, child) ==
    LET type_id == hash_of_cursor(child)
        name == IF type_id \in DOMAIN st.aliases THEN st.aliases[type_id]
                ELSE child.spelling
    IN  IF ~child.is_definition THEN st
        ELSE IF ~struct_retained(name) THEN st
        ELSE [st EXCEPT !.structs = Append(@, Struct_new(child)),
                        !.types = dict_set(@, type_id, Struct_new(child))]

\* declaration_step that also enters the tag of a struct in the alias dict
declaration_step_aliasing(st, child) ==
    IF skipped(child) THEN st
    ELSE IF child.kind = "STRUCT_DECL"
    THEN [struct_step(st, child) EXCEPT !.aliases =
             dict_set(@, hash_of_spelling("struct " \o child.spelling), child.spelling)]
    ELSE IF child.kind = "FUNCTION_DECL" THEN
        IF function_retained(child.spelling)
        THEN [st EXCEPT !.functions = dict_set(@, child.spelling, Function_new(child))]
        ELSE st
    ELSE st

\* One iteration of the loop of AST._collect_declarations
declaration_step(st, child) ==
    IF skipped(child) THEN st
    ELSE IF child.kind = "STRUCT_DECL" THEN struct_step(st, child)
    ELSE IF child.kind = "FUNCTION_DECL" THEN
        IF function_retained(child.spelling)
        THEN [st EXCEPT !.functions = dict_set(@, child.spelling, Function_new(child))]
        ELSE st
    ELSE st

\* AST._collect_declarations over the children of the translation unit
RECURSIVE collect_declarations(_, _)
collect_declarations(st, children) ==
    IF children = <<>> THEN st
    ELSE collect_declarations(declaration_step(st, Head(children)), Tail(children))

\* AST.get_function_names
get_function_names(version, structs_) ==
    LET struct_name == IF version = 2 THEN "_CK_FUNCTION_LIST" ELSE "_CK_FUNCTION_LIST_3_0"
        found == {i \in 1..Len(structs_) : structs_[i].name = struct_name}
    IN  IF found = {} THEN <<>>
        ELSE LET struct == structs_[CHOOSE i \in found : \A j \in found : i <= j]
             IN  [k \in 1..(Len(struct.members) - 1) |-> struct.members[k + 1].name]

\* Elements of a sequence
Range(seq) == {seq[i] : i \in 1..Len(seq)}

\* version_of with the version left at the default Function.__init__ sets
version_of_default(name, function_names2) == 2

\* "if name not in function_names2: version = 3, else: version = 2"
version_of(name, function_names2) ==
    IF name \notin Range(function_names2) THEN 3 ELSE 2

\* A sequence of the elements of a finite set
RECURSIVE SetToSeq(_)
SetToSeq(S) ==
    IF S = {} THEN <<>>
    ELSE LET x == CHOOSE y \in S : TRUE IN <<x>> \o SetToSeq(S \ {x})

\* emitted_names with the functions outside function_names3 appended too
emitted_names_all(function_names3, functions_) ==
    SelectSeq(function_names3, LAMBDA name : name \in DOMAIN functions_)
      \o SetToSeq(DOMAIN functions_ \ Range(function_names3))

\* The names the loop over function_names3 appends a function for
emitted_names(function_names3, functions_) ==
    SelectSeq(function_names3, LAMBDA name : name \in DOMAIN functions_)

-----------------------------------------------------------------------------
(* The run *)

\* "self._collect_typedefs(self.cursor)"
CollectTypedefs ==
    /\ pc = "typedefs"
    /\ LET st == collect_typedefs([aliases |-> aliases, stdout |-> stdout], tree)
       IN  /\ aliases' = st.aliases
           /\ stdout' = st.stdout
    /\ pc' = "declarations"
    /\ UNCHANGED <<tree, types, structs, functions, origin, out_functions, outfile>>

\* "self._collect_declarations(self.cursor, types, functions)"
CollectDeclarations ==
    /\ pc = "declarations"
    /\ LET st == collect_declarations([structs |-> structs, types |-> types,
                                       functions |-> functions, aliases |-> aliases],
                                      tree)
       IN  /\ structs' = st.structs
           /\ types' = st.types
           /\ functions' = st.functions
           /\ aliases' = st.aliases
    /\ pc' = "origin"
    /\ UNCHANGED <<tree, stdout, origin, out_functions, outfile>>

\* The loop that looks for C_GetInterfaceList; origin = <<>> is None
DetermineOrigin ==
    /\ pc = "origin"
    /\ origin' =
          IF /\ "C_GetInterfaceList" \in DOMAIN functions
             /\ functions["C_GetInterfaceList"].file # ""
          THEN LET file_path == functions["C_GetInterfaceList"].file
               IN  <<IF startswith(file_path, Cwd) THEN relpath(file_path) ELSE file_path>>
          ELSE origin
    /\ pc' = "classify"
    /\ UNCHANGED <<tree, aliases, stdout, types, structs, functions, out_functions, outfile>>

\* The version loop that ends AST.__init__
ClassifyVersions ==
    /\ pc = "classify"
    /\ LET function_names2 == get_function_names(2, structs)
           function_names3 == get_function_names(3, structs)
           names == emitted_names(function_names3, functions)
           tagged(name) == [functions[name] EXCEPT !.version = version_of(name, function_names2)]
       IN  /\ out_functions' = [i \in 1..Len(names) |-> tagged(names[i])]
           /\ functions' = [name \in DOMAIN functions |->
                              IF name \in Range(names) THEN tagged(name)
                              ELSE functions[name]]
    /\ pc' = "serialize"
    /\ UNCHANGED <<tree, aliases, stdout, types, structs, origin, outfile>>

\* json.dumps of the document with the Encoder
document ==
    [comment |-> "This file is automatically generated from "
                 \o (IF origin = <<>> THEN "None" ELSE origin[1]),
     license |-> "BSD-3-Clause",
     functions |-> [i \in 1..Len(out_functions) |-> Function_to_json(out_functions[i], aliases)],
     structs |-> [i \in 1..Len(structs) |-> Struct_to_json(structs[i], aliases)]]

\* "args.outfile.write(json.dumps(...))"
Serialize ==
    /\ pc = "serialize"
    /\ outfile' = Append(outfile, document)
    /\ pc' = "done"
    /\ UNCHANGED <<tree, aliases, stdout, types, structs, functions, origin, out_functions>>

Next ==
    \/ CollectTypedefs
    \/ CollectDeclarations
    \/ DetermineOrigin
    \/ ClassifyVersions
    \/ Serialize

\* The state AST.__init__ starts from, for the translation unit tu
Start(tu) ==
    /\ tree = tu
    /\ pc = "typedefs"
    /\ aliases = EmptyDict
    /\ stdout = <<>>
    /\ types = EmptyDict
    /\ structs = <<>>
    /\ functions = EmptyDict
    /\ origin = <<>>
    /\ out_functions = <<>>
    /\ outfile = <<>>

-----------------------------------------------------------------------------
(* Inputs: the cursors libclang gives for pkcs11.h declarations *)

TypedefDecl(name, underlying, file) ==
    [kind |-> "TYPEDEF_DECL", spelling |-> name, underlying |-> underlying, file |-> file]

FieldDecl(name, type) == [kind |-> "FIELD_DECL", spelling |-> name, type |-> type]

\* "struct tag { children };"
StructDef(tag, children, file) ==
    [kind |-> "STRUCT_DECL", spelling |-> tag, hash |-> tag, is_definition |-> TRUE,
     children |-> children, file |-> file]

\* "struct tag;"
StructForward(tag, file) ==
    [kind |-> "STRUCT_DECL", spelling |-> tag, hash |-> tag, is_definition |-> FALSE,
     children |-> <<>>, file |-> file]

ParmDecl(name, type) == [spelling |-> name, type |-> type]

FunctionDecl(name, result_type, arguments, file) ==
    [kind |-> "FUNCTION_DECL", spelling |-> name, result_type |-> result_type,
     arguments |-> arguments, file |-> file]

UChar == Builtin("UCHAR", "unsigned char")
CharU == Builtin("CHAR_U", "char")
CharS == Builtin("CHAR_S", "char")
ULong == Builtin("ULONG", "unsigned long")
Long == Builtin("LONG", "long")
Int == Builtin("INT", "int")
Void == Builtin("VOID", "void")

CK_BYTE == TypedefOf("CK_BYTE", UChar)
CK_ULONG == TypedefOf("CK_ULONG", ULong)
CK_RV == TypedefOf("CK_RV", CK_ULONG)
CK_VOID_PTR == TypedefOf("CK_VOID_PTR", PointerTo(Void))
CK_VERSION == TypedefOf("CK_VERSION", StructRef("_CK_VERSION"))

\* The type of a member of a dispatch table: CK_RV (*)(CK_VOID_PTR)
FunctionPointer == PointerTo(FunctionProto("CK_RV (CK_VOID_PTR)"))

\* Declarations every input starts with
Prelude(file) ==
    << TypedefDecl("CK_BYTE", UChar, file),
       TypedefDecl("CK_ULONG", ULong, file),
       TypedefDecl("CK_RV", CK_ULONG, file),
       TypedefDecl("CK_VOID_PTR", PointerTo(Void), file),
       StructDef("_CK_VERSION",
                 <<FieldDecl("major", CK_BYTE), FieldDecl("minor", CK_BYTE)>>, file),
       TypedefDecl("CK_VERSION", StructRef("_CK_VERSION"), file) >>

\* "CK_RV name(CK_VOID_PTR pArg);"
SimpleFunction(name, file) ==
    FunctionDecl(name, CK_RV, <<ParmDecl("pArg", CK_VOID_PTR)>>, file)

\* A dispatch table whose members after "version" are the function pointers names
DispatchTable(tag, names, file) ==
    StructDef(tag,
              <<FieldDecl("version", CK_VERSION)>>
                \o [i \in 1..Len(names) |-> FieldDecl(names[i], FunctionPointer)],
              file)

\* Sequences without repetition of at most n elements of S
DistinctSeqs(S, n) ==
    {q \in UNION {[1..k -> S] : k \in 0..n} :
        \A i, j \in 1..Len(q) : i # j => q[i] # q[j]}

-----------------------------------------------------------------------------
(* Inputs of Spec: the two dispatch tables and the declared functions *)

\* Number of function names the dispatch tables draw their members from, and
\* so the longest list of function pointers in a table
MaxMembers == 3

FunctionNames ==
    <<"C_Initialize", "C_Finalize", "C_LoginModule", "C_GetInterfaceList", "C_GetInterface">>

ListedNames == {FunctionNames[i] : i \in 1..MaxMembers}

DeclarableNames == <<"C_Initialize", "C_Finalize", "C_LoginModule", "C_GetInterfaceList">>

\* The sets of functions a header declares: all, all but one, none
DeclaredOptions ==
    {Range(DeclarableNames), {}}
      \cup {Range(DeclarableNames) \ {n} : n \in Range(DeclarableNames)}

\* A dispatch table of the header: absent, declared only, or defined
TableOptions ==
    {[how |-> "absent", names |-> <<>>], [how |-> "forward", names |-> <<>>]}
      \cup {[how |-> "defined", names |-> q] : q \in DistinctSeqs(ListedNames, MaxMembers)}

\* The declarations of one dispatch table: the struct and the typedef that names it
TableDecls(tag, alias, option, typedefd, file) ==
    (IF option.how = "defined" THEN <<DispatchTable(tag, option.names, file)>>
     ELSE IF option.how = "forward" THEN <<StructForward(tag, file)>>
     ELSE <<>>)
    \o (IF typedefd THEN <<TypedefDecl(alias, StructRef(tag), file)>> ELSE <<>>)

VersionTree(base, super, base_typedef, super_typedef, declared) ==
    LET file == "pkcs11.h"
        names == SelectSeq(DeclarableNames, LAMBDA n : n \in declared)
    IN  Prelude(file)
        \o TableDecls("_CK_FUNCTION_LIST", "CK_FUNCTION_LIST", base, base_typedef, file)
        \o TableDecls("_CK_FUNCTION_LIST_3_0", "CK_FUNCTION_LIST_3_0", super,
                      super_typedef, file)
        \o [i \in 1..Len(names) |-> SimpleFunction(names[i], file)]

Init ==
    \E base \in TableOptions, super \in TableOptions,
       base_typedef \in BOOLEAN, super_typedef \in BOOLEAN,
       declared \in DeclaredOptions :
        Start(VersionTree(base, super, base_typedef, super_typedef, declared))

Spec == Init /\ [][Next]_vars

-----------------------------------------------------------------------------
(* Inputs of SpecTypes: a struct with two members and a function with two  *)
(* arguments of the same two types, over the types a header can spell      *)

\* Longest chain of typedefs over a type
MaxChain == 2

\* The types typedef chains end in, with the label their typedefs are named by.
\* tag is the tag of the struct the header declares.
Terminals(tag) ==
    { [label |-> "UCHAR", type |-> UChar],
      [label |-> "CHAR_U", type |-> CharU],
      [label |-> "CHAR_S", type |-> CharS],
      [label |-> "ULONG", type |-> ULong],
      [label |-> "LONG", type |-> Long],
      [label |-> "INT", type |-> Int],
      [label |-> "VOID_PTR", type |-> PointerTo(Void)],
      [label |-> "UCHAR_PTR", type |-> PointerTo(UChar)],
      [label |-> "ULONG_PTR", type |-> PointerTo(ULong)],
      [label |-> "DATE", type |-> StructRef(tag)],
      [label |-> "DATE_PTR", type |-> PointerTo(StructRef(tag))],
      [label |-> "KIND", type |-> EnumRef("ck_kind")],
      [label |-> "SERIAL", type |-> ArrayOf(UChar, 4)] }

\* k typedefs over a terminal: CK_label_1 names the terminal, CK_label_2 names CK_label_1, ...
RECURSIVE Chain(_, _)
Chain(terminal, k) ==
    IF k = 0 THEN terminal.type
    ELSE TypedefOf("CK_" \o terminal.label \o "_" \o ToString(k), Chain(terminal, k - 1))

\* The types of members and arguments
MemberTypes(tag) ==
    {Chain(terminal, k) : terminal \in Terminals(tag), k \in 0..MaxChain}
      \cup {PointerTo(Chain(terminal, 1)) :
              terminal \in {x \in Terminals(tag) : x.label \in {"UCHAR", "DATE"}}}

\* The typedef declarations a type needs, innermost first
RECURSIVE RequiredTypedefs(_, _)
RequiredTypedefs(t, file) ==
    IF t.kind = "TYPEDEF"
    THEN RequiredTypedefs(t.underlying, file) \o <<TypedefDecl(t.spelling, t.underlying, file)>>
    ELSE IF t.kind = "POINTER" THEN RequiredTypedefs(t.pointee, file)
    ELSE IF t.kind = "CONSTANTARRAY" THEN RequiredTypedefs(t.elem, file)
    ELSE <<>>

\* A sequence without its repeated elements
RECURSIVE RemoveDuplicates(_)
RemoveDuplicates(seq) ==
    IF seq = <<>> THEN <<>>
    ELSE LET front == RemoveDuplicates(SubSeq(seq, 1, Len(seq) - 1))
             last == seq[Len(seq)]
         IN  IF last \in Range(front) THEN front ELSE Append(front, last)

StructTags == {"_CK_DATE", "CK_DATE"}

\* Typedefs of the struct the header may declare beside those the types need
ExtraTypedefs == {"alias", "pointer"}

TypesTree(tag, t1, t2, extra) ==
    LET file == "/work/pkcs11.h"
        returns == IF t1.kind = "CONSTANTARRAY" THEN CK_RV ELSE t1
    IN  Prelude(file)
        \o <<StructDef(tag, <<FieldDecl("year", ArrayOf(CK_BYTE, 4))>>, file)>>
        \o RemoveDuplicates(RequiredTypedefs(t1, file) \o RequiredTypedefs(t2, file))
        \o (IF "alias" \in extra
            THEN <<TypedefDecl("CK_DATE", StructRef(tag), file)>> ELSE <<>>)
        \o (IF "pointer" \in extra
            THEN <<TypedefDecl("CK_DATE_PTR", PointerTo(StructRef(tag)), file)>> ELSE <<>>)
        \o <<StructDef("CK_HOLDER", <<FieldDecl("first", t1), FieldDecl("second", t2)>>, file)>>
        \o TableDecls("_CK_FUNCTION_LIST_3_0", "CK_FUNCTION_LIST_3_0",
                      [how |-> "defined", names |-> <<"C_Use", "C_GetInterfaceList">>],
                      TRUE, file)
        \o <<FunctionDecl("C_Use", returns,
                          <<ParmDecl("first", t1), ParmDecl("second", t2)>>, file),
             SimpleFunction("C_GetInterfaceList", file)>>

InitTypes ==
    \E tag \in StructTags, extra \in SUBSET ExtraTypedefs :
        \E t1 \in MemberTypes(tag), t2 \in MemberTypes(tag) :
            Start(TypesTree(tag, t1, t2, extra))

SpecTypes == InitTypes /\ [][Next]_vars

-----------------------------------------------------------------------------
(* Inputs of SpecAlias: typedefs of structs and of pointers to them in any *)
(* order, and structs with and without the CK_ prefix                      *)

\* Most typedefs of the header beside the one of the dispatch table
MaxTypedefs == 3

MainFile == "/usr/include/p11-kit-1/p11-kit/pkcs11.h"

SystemFile == "/usr/include/stddef.h"

TypedefUniverse ==
    { TypedefDecl("CK_INFO", StructRef("_CK_INFO"), MainFile),
      TypedefDecl("ck_info_t", StructRef("_CK_INFO"), MainFile),
      TypedefDecl("CK_INFO_PTR", PointerTo(StructRef("_CK_INFO")), MainFile),
      TypedefDecl("CK_INFO_REF", PointerTo(StructRef("_CK_INFO")), MainFile),
      TypedefDecl("CK_SLOT", StructRef("CK_SLOT"), MainFile),
      TypedefDecl("CK_PRIVATE", StructRef("p11_private"), MainFile),
      TypedefDecl("CK_SYSTEM", StructRef("_CK_INFO"), SystemFile) }

\* The members the structs of this family share
InfoMembers ==
    <<FieldDecl("flags", ULong), FieldDecl("next", PointerTo(StructRef("_CK_INFO")))>>

StructUniverse ==
    << StructDef("_CK_INFO", InfoMembers, MainFile),
       StructDef("CK_SLOT", InfoMembers, MainFile),
       StructDef("p11_private", InfoMembers, MainFile),
       StructForward("CK_TOKEN", MainFile),
       StructDef("CK_SYSTEM_INFO", InfoMembers, SystemFile) >>

\* The structs a header of this family may leave out
OptionalStructs == {"_CK_INFO", "p11_private", "CK_TOKEN"}

\* "CK_RV name(struct _CK_INFO *pInfo, unsigned long flags);" without the typedef CK_RV
InfoFunction(name) ==
    FunctionDecl(name, ULong,
                 <<ParmDecl("pInfo", PointerTo(StructRef("_CK_INFO"))),
                   ParmDecl("flags", ULong)>>, MainFile)

AliasTree(typedefs, chosen) ==
    typedefs
    \o SelectSeq(StructUniverse,
                 LAMBDA d : d.spelling \in chosen \/ d.spelling \notin OptionalStructs)
    \o << TypedefDecl("CK_FUNCTION_LIST_3_0", StructRef("_CK_FUNCTION_LIST_3_0"), MainFile),
          StructDef("_CK_FUNCTION_LIST_3_0",
                    <<FieldDecl("version", ULong)>>
                      \o [i \in 1..3 |->
                            FieldDecl(<<"C_Use", "p11_helper", "C_GetInterfaceList">>[i],
                                      FunctionPointer)],
                    MainFile),
          InfoFunction("C_Use"),
          InfoFunction("p11_helper"),
          InfoFunction("C_GetInterfaceList") >>

InitAlias ==
    \E typedefs \in DistinctSeqs(TypedefUniverse, MaxTypedefs),
       chosen \in SUBSET OptionalStructs :
        Start(AliasTree(typedefs, chosen))

SpecAlias == InitAlias /\ [][Next]_vars

-----------------------------------------------------------------------------
(* Inputs of SpecOrder: struct definitions in any order, one of them after *)
(* a forward declaration, with members and parameters in any order         *)

\* Most members of a struct and most parameters of a function
MaxFields == 3

FieldUniverse ==
    { FieldDecl("type", CK_ULONG),
      FieldDecl("pValue", CK_VOID_PTR),
      FieldDecl("ulValueLen", ULong),
      FieldDecl("reserved", ArrayOf(UChar, 4)) }

ParmUniverse ==
    { ParmDecl("pInfo", PointerTo(StructRef("_CK_ATTRIBUTE"))),
      ParmDecl("flags", CK_ULONG),
      ParmDecl("", CK_BYTE) }

\* "union { ... } name;" inside a struct: the UNION_DECL cursor that precedes
\* the FIELD_DECL of the member
UnionDecl == [kind |-> "UNION_DECL", spelling |-> ""]

\* members with the declaration of an anonymous union after the first of them
WithUnion(members) ==
    IF members = <<>> THEN <<UnionDecl>>
    ELSE <<Head(members), UnionDecl>> \o Tail(members)

OrderTags == {"_CK_ATTRIBUTE", "CK_MECHANISM", "p11_private"}

\* The orders the struct definitions of this family come in
StructOrders == {q \in [1..3 -> OrderTags] : \A i, j \in 1..3 : i # j => q[i] # q[j]}

OrderTree(order, forward, members, params) ==
    Prelude(MainFile)
    \o (IF forward = "" THEN <<>> ELSE <<StructForward(forward, MainFile)>>)
    \o [i \in 1..3 |->
          StructDef(order[i],
                    IF order[i] = "CK_MECHANISM" THEN WithUnion(members) ELSE members,
                    MainFile)]
    \o << TypedefDecl("CK_ATTRIBUTE", StructRef("_CK_ATTRIBUTE"), MainFile),
          TypedefDecl("CK_FUNCTION_LIST_3_0", StructRef("_CK_FUNCTION_LIST_3_0"), MainFile),
          DispatchTable("_CK_FUNCTION_LIST_3_0", <<"C_GetInterfaceList", "C_Use">>, MainFile),
          FunctionDecl("C_Use", CK_RV, params, MainFile),
          SimpleFunction("C_GetInterfaceList", MainFile) >>

InitOrder ==
    \E order \in StructOrders,
       forward \in OrderTags \cup {""},
       members \in DistinctSeqs(FieldUniverse, MaxFields),
       params \in DistinctSeqs(ParmUniverse, MaxFields) :
        Start(OrderTree(order, forward, members, params))

SpecOrder == InitOrder /\ [][Next]_vars

-----------------------------------------------------------------------------
(* What the claims speak of *)

\* The document the run wrote
Emitted == outfile[1]

Done == pc = "done"

\* <<name, version>> of the emitted functions, in order
EmittedFunctions ==
    [i \in 1..Len(Emitted.functions) |->
        <<Emitted.functions[i].name, Emitted.functions[i].version>>]

EmittedNames == [i \in 1..Len(Emitted.functions) |-> Emitted.functions[i].name]

\* The definitions of struct tag in the header
TreeStructs(tag) ==
    SelectSeq(tree, LAMBDA d : d.kind = "STRUCT_DECL" /\ d.spelling = tag /\ d.is_definition)

\* Member names of struct tag as the header declares it, minus the first
TreeList(tag) ==
    IF TreeStructs(tag) = <<>> THEN <<>>
    ELSE LET fields == SelectSeq(TreeStructs(tag)[1].children,
                                 LAMBDA m : m.kind = "FIELD_DECL")
         IN  [k \in 1..(Len(fields) - 1) |-> fields[k + 1].spelling]

\* Names of the functions the header declares
TreeFunctions ==
    {tree[i].spelling : i \in {j \in 1..Len(tree) : tree[j].kind = "FUNCTION_DECL"}}

\* Position of an element in a sequence without repetition
IndexOf(seq, x) == CHOOSE i \in 1..Len(seq) : seq[i] = x

\* q lists elements of seq in the order seq has them
InOrderOf(q, seq) ==
    /\ \A i \in 1..Len(q) : q[i] \in Range(seq)
    /\ \A i, j \in 1..Len(q) : i < j => IndexOf(seq, q[i]) < IndexOf(seq, q[j])

\* The list of a dispatch table: the member names of struct tag of the header
\* minus the first; empty when the run did not keep the struct
KeptList(tag) ==
    IF \E i \in 1..Len(structs) : structs[i].name = tag THEN TreeList(tag) ELSE <<>>

ScenarioTree ==
    /\ TreeList("_CK_FUNCTION_LIST") = <<"C_Initialize", "C_Finalize">>
    /\ TreeList("_CK_FUNCTION_LIST_3_0") = <<"C_Initialize", "C_Finalize", "C_LoginModule">>
    /\ TreeFunctions = {"C_Initialize", "C_Finalize", "C_LoginModule", "C_GetInterfaceList"}
    /\ \E i, j \in 1..Len(structs) :
          structs[i].name = "_CK_FUNCTION_LIST" /\ structs[j].name = "_CK_FUNCTION_LIST_3_0"

\* C2: a declared function whose name is in neither dispatch table of the
\* header is never emitted; in the end-to-end scenario the output is exactly
\* C_Initialize (2), C_Finalize (2), C_LoginModule (3).
C2_UnlistedExcluded ==
    Done =>
        /\ \A name \in TreeFunctions :
              name \notin Range(TreeList("_CK_FUNCTION_LIST"))
                            \cup Range(TreeList("_CK_FUNCTION_LIST_3_0"))
                  => name \notin Range(EmittedNames)
        /\ ScenarioTree =>
              EmittedFunctions =
                  <<<<"C_Initialize", 2>>, <<"C_Finalize", 2>>, <<"C_LoginModule", 3>>>>

\* The end-to-end scenario has run: C_GetInterfaceList is declared, determines
\* the origin and is not emitted
C2_Witness ==
    /\ Done
    /\ ScenarioTree
    /\ "C_GetInterfaceList" \in DOMAIN functions
    /\ origin = <<"pkcs11.h">>
    /\ Len(Emitted.functions) = 3

\* The base list has a name the superseding list lacks
SupersetViolated ==
    ~(Range(KeptList("_CK_FUNCTION_LIST")) \subseteq Range(KeptList("_CK_FUNCTION_LIST_3_0")))

\* C3: when the base list has a name the superseding list lacks, the run
\* aborts: it never gets to serialise and writes no document.
C3_SupersetViolationFatal ==
    /\ pc \in {"serialize", "done"} => ~SupersetViolated
    /\ outfile # <<>> => ~SupersetViolated

\* C_GetInterfaceList or one of the two dispatch tables is not in the header
MissingWellKnown ==
    \/ "C_GetInterfaceList" \notin TreeFunctions
    \/ ~\E i \in 1..Len(tree) :
          tree[i].kind = "STRUCT_DECL" /\ tree[i].spelling = "_CK_FUNCTION_LIST"
    \/ ~\E i \in 1..Len(tree) :
          tree[i].kind = "STRUCT_DECL" /\ tree[i].spelling = "_CK_FUNCTION_LIST_3_0"

\* C4: when the entry point or a dispatch table is missing from the header,
\* the run ends in an error and writes no document.
C4_MissingDeclarationFatal ==
    /\ pc \in {"serialize", "done"} => ~MissingWellKnown
    /\ outfile # <<>> => ~MissingWellKnown

\* The type a chain of typedefs ends in
RECURSIVE Terminal(_)
Terminal(t) == IF t.kind = "TYPEDEF" THEN Terminal(t.underlying) ELSE t

\* Width in bits of the fundamental types (LP64); 0 for a type that is none
FundamentalBits(kind) ==
    CASE kind \in {"UCHAR", "CHAR_U", "CHAR_S"} -> 8
      [] kind \in {"ULONG", "LONG"} -> 64
      [] kind = "INT" -> 32
      [] OTHER -> 0

\* <<argument type, emitted ffi-type>> of every emitted argument
EmittedClassifications ==
    UNION {{<<out_functions[i].arguments[j].type, Emitted.functions[i].arguments[j].ffi_type>> :
              j \in 1..Len(out_functions[i].arguments)} :
           i \in 1..Len(out_functions)}

\* <<type, emitted spelling>> of every emitted struct member
MemberSpellings ==
    UNION {{<<structs[i].members[k].field_type, Emitted.structs[i].members[k].type>> :
              k \in 1..Len(structs[i].members)} :
           i \in 1..Len(structs)}

\* <<type, emitted spelling>> of every emitted argument and return type
FunctionSpellings ==
    UNION {{<<out_functions[i].arguments[j].type, Emitted.functions[i].arguments[j].type>> :
              j \in 1..Len(out_functions[i].arguments)}
             \cup {<<out_functions[i].result_type, Emitted.functions[i].returns>>} :
           i \in 1..Len(out_functions)}

\* C5: an argument is classified uchar only if its type ends in an 8-bit
\* fundamental, ulong only if it ends in a 64-bit fundamental and pointer only
\* if it ends in a pointer; no other type gets a classification.
C5_NoSilentDefault ==
    Done =>
        \A c \in EmittedClassifications :
            LET kind == Terminal(c[1]).kind
            IN  /\ c[2] = "uchar" => FundamentalBits(kind) = 8
                /\ c[2] = "ulong" => FundamentalBits(kind) = 64
                /\ c[2] = "pointer" => kind = "POINTER"

\* The names the typedefs of the header give struct tag
TypedefNamesOf(tag) ==
    {tree[i].spelling : i \in {j \in 1..Len(tree) :
        /\ tree[j].kind = "TYPEDEF_DECL"
        /\ tree[j].underlying = StructRef(tag)}}

\* Tags of the structs the header declares or names
TreeTags ==
    {tree[i].spelling : i \in {j \in 1..Len(tree) : tree[j].kind = "STRUCT_DECL"}}

\* C6: where a typedef T names struct S, a pointer to S is rendered "T *" and
\* S by value is rendered "T", as member, argument and return type alike.
C6_AliasPropagation ==
    Done =>
        \A tag \in TreeTags : TypedefNamesOf(tag) # {} =>
            \A o \in MemberSpellings \cup FunctionSpellings :
                /\ o[1] = StructRef(tag) => o[2] \in TypedefNamesOf(tag)
                /\ o[1] = PointerTo(StructRef(tag)) =>
                      o[2] \in {T \o " *" : T \in TypedefNamesOf(tag)}

\* C7: a type has the same spelling as a struct member and as an argument or
\* return type.
C7_SiteIndependentSpelling ==
    Done =>
        \A m \in MemberSpellings, f \in FunctionSpellings : m[1] = f[1] => m[2] = f[2]

\* C8: two arguments whose typedef chains end in the same kind get the same
\* ffi-type: uchar for the 8-bit unsigned fundamental, ulong for the 64-bit
\* unsigned fundamental, pointer for a pointer.
C8_ClassificationByTerminalKind ==
    Done =>
        /\ \A c, d \in EmittedClassifications :
              Terminal(c[1]).kind = Terminal(d[1]).kind => c[2] = d[2]
        /\ \A c \in EmittedClassifications :
              /\ Terminal(c[1]).kind = "UCHAR" => c[2] = "uchar"
              /\ Terminal(c[1]).kind = "ULONG" => c[2] = "ulong"
              /\ Terminal(c[1]).kind = "POINTER" => c[2] = "pointer"

\* Two arguments of different names and chain lengths, both ending in unsigned
\* char, were both classified uchar
C8_Witness ==
    /\ Done
    /\ \E c, d \in EmittedClassifications :
          /\ c[1] = UChar
          /\ d[1].kind = "TYPEDEF" /\ d[1].underlying.kind = "TYPEDEF"
          /\ Terminal(d[1]) = UChar
          /\ c[2] = "uchar" /\ d[2] = "uchar"

\* The typedef declarations of the header, in the order of the header
TreeTypedefs == SelectSeq(tree, LAMBDA d : d.kind = "TYPEDEF_DECL")

\* The alias table _collect_typedefs builds when it visits the typedefs in
\* the order children
AliasTableOf(children) ==
    collect_typedefs([aliases |-> EmptyDict, stdout |-> <<>>], children).aliases

\* Every order of the typedefs of the header gives the table the run built
OrderIndependent ==
    \A p \in Permutations(1..Len(TreeTypedefs)) :
        AliasTableOf([i \in 1..Len(TreeTypedefs) |-> TreeTypedefs[p[i]]]) = aliases

\* Two typedefs of the header name the same underlying type
SharedUnderlying ==
    \E i, j \in 1..Len(TreeTypedefs) :
        i # j /\ TreeTypedefs[i].underlying = TreeTypedefs[j].underlying

\* No step after _collect_typedefs changes the alias table
AliasesFrozen == [][pc # "typedefs" => aliases' = aliases]_vars

\* C9 as stated: when _collect_typedefs returns, any two orders of the typedefs
\* give the alias table it built, also when two typedefs name the same
\* underlying pointer or struct type; and no later step changes the table.
C9_OrderIndependentAlways ==
    /\ [](pc = "declarations" => OrderIndependent)
    /\ AliasesFrozen

\* C9 amended: when _collect_typedefs returns, any two orders of the typedefs
\* give the alias table it built provided no two typedefs name the same
\* underlying type, and no later step adds, removes or changes an alias entry.
C9_OrderIndependentFrozen ==
    /\ [](pc = "declarations" /\ ~SharedUnderlying => OrderIndependent)
    /\ AliasesFrozen

\* A run over three typedefs of three different types has built its table and
\* gone on to serialise
C9_Witness ==
    /\ Done
    /\ ~SharedUnderlying
    /\ Len(TreeTypedefs) = 4
    /\ Cardinality(DOMAIN aliases) = 4

\* The definitions of structs in the main file
TreeDefinitions ==
    {tree[i] : i \in {j \in 1..Len(tree) :
        tree[j].kind = "STRUCT_DECL" /\ tree[j].is_definition /\ ~skipped(tree[j])}}

\* The name a struct is emitted under: its alias if it has one, else its tag
DisplayName(d) == dict_get(aliases, hash_of_cursor(d), d.spelling)

\* C10: every emitted struct is a complete definition whose emitted name (its
\* alias, else its tag) starts with CK_, every emitted function has a name that
\* starts with C_, and no struct or function without the prefix is emitted.
C10_PrefixFiltering ==
    Done =>
        /\ \A i \in 1..Len(Emitted.structs) :
              /\ startswith(Emitted.structs[i].name, "CK_")
              /\ \E d \in TreeDefinitions : DisplayName(d) = Emitted.structs[i].name
        /\ \A d \in TreeDefinitions :
              ~startswith(DisplayName(d), "CK_") =>
                  \A i \in 1..Len(Emitted.structs) : Emitted.structs[i].name # DisplayName(d)
        /\ \A i \in 1..Len(Emitted.functions) : startswith(Emitted.functions[i].name, "C_")
        /\ \A name \in TreeFunctions :
              ~startswith(name, "C_") => name \notin Range(EmittedNames)

\* CK_SLOT was emitted and p11_private, with the same members, was not;
\* C_Use was emitted and p11_helper, with the same signature and listed in the
\* dispatch table too, was not
C10_Witness ==
    /\ Done
    /\ \E d, e \in TreeDefinitions :
          /\ d.spelling = "CK_SLOT" /\ e.spelling = "p11_private"
          /\ d.children = e.children
          /\ DisplayName(e) = "p11_private"
    /\ \E i \in 1..Len(Emitted.structs) : Emitted.structs[i].name = "CK_SLOT"
    /\ \A i \in 1..Len(Emitted.structs) : Emitted.structs[i].name # "p11_private"
    /\ "p11_helper" \in TreeFunctions
    /\ "p11_helper" \in Range(KeptList("_CK_FUNCTION_LIST_3_0"))
    /\ "C_Use" \in Range(EmittedNames)
    /\ "p11_helper" \notin Range(EmittedNames)

\* The struct definitions of the main file the run emits, in the order the
\* header has them
OrderedDefinitions ==
    SelectSeq(tree, LAMBDA d :
        /\ d.kind = "STRUCT_DECL" /\ d.is_definition /\ ~skipped(d)
        /\ startswith(DisplayName(d), "CK_"))

\* Names of the field declarations of a struct definition, in declared order
DeclaredMembers(d) ==
    LET fields == SelectSeq(d.children, LAMBDA m : m.kind = "FIELD_DECL")
    IN  [k \in 1..Len(fields) |-> fields[k].spelling]

\* Names of the parameters of the function the header declares as name
DeclaredParameters(name) ==
    LET d == CHOOSE f \in Range(tree) : f.kind = "FUNCTION_DECL" /\ f.spelling = name
    IN  [k \in 1..Len(d.arguments) |-> d.arguments[k].spelling]

NamesOf(seq) == [k \in 1..Len(seq) |-> seq[k].name]

\* C11: the emitted structs are the retained struct definitions in the order
\* the header defines them, the members of each are exactly its field
\* declarations in declared order, and the arguments of each emitted function
\* are exactly its parameters in declared order.
C11_DeclarationOrderPreserved ==
    Done =>
        /\ Len(Emitted.structs) = Len(OrderedDefinitions)
        /\ \A i \in 1..Len(Emitted.structs) :
              /\ Emitted.structs[i].name = DisplayName(OrderedDefinitions[i])
              /\ NamesOf(Emitted.structs[i].members)
                    = DeclaredMembers(OrderedDefinitions[i])
        /\ \A i \in 1..Len(Emitted.functions) :
              NamesOf(Emitted.functions[i].arguments)
                 = DeclaredParameters(Emitted.functions[i].name)

\* struct _CK_ATTRIBUTE is declared first and defined after CK_MECHANISM, and
\* is emitted after it; CK_MECHANISM has a union declaration among its three
\* fields, emitted without it in an order that is not the alphabetical one;
\* C_Use is emitted with its three parameters, the unnamed one in the middle
C11_Witness ==
    /\ Done
    /\ \E i, j, k \in 1..Len(tree) :
          /\ i < j /\ j < k
          /\ tree[i].kind = "STRUCT_DECL" /\ tree[i].spelling = "_CK_ATTRIBUTE"
          /\ ~tree[i].is_definition
          /\ tree[j].kind = "STRUCT_DECL" /\ tree[j].spelling = "CK_MECHANISM"
          /\ Len(tree[j].children) = MaxFields + 1
          /\ tree[k].kind = "STRUCT_DECL" /\ tree[k].spelling = "_CK_ATTRIBUTE"
          /\ tree[k].is_definition
    /\ \E i, j \in 1..Len(Emitted.structs) :
          /\ i < j
          /\ Emitted.structs[i].name = "CK_MECHANISM"
          /\ Len(Emitted.structs[i].members) = MaxFields
          /\ NamesOf(Emitted.structs[i].members)[1] = "ulValueLen"
          /\ NamesOf(Emitted.structs[i].members)[2] = "type"
          /\ Emitted.structs[j].name = "CK_ATTRIBUTE"
    /\ \E i \in 1..Len(Emitted.functions) :
          /\ Emitted.functions[i].name = "C_Use"
          /\ NamesOf(Emitted.functions[i].arguments) = <<"flags", "", "pInfo">>

=============================================================================
